---------------------------- MODULE Spec2Model ----------------------------
(***************************************************************************)
(* Model of the CEFR context service (src/app.py) and of the ingestion    *)
(* job (src/process.py).                                                   *)
(*                                                                         *)
(* Text is modelled as a sequence of tokens.  A token is either a maximal  *)
(* run of word characters (a member of WordTokens), one white-space        *)
(* character (" " or "\n"), the colon, or one other punctuation character. *)
(* The regular expression of parse_user_message only distinguishes the     *)
(* character classes \w, \s, ":" and "anything but newline", and a match   *)
(* can never begin or end inside a run of word characters that is followed *)
(* or preceded by a non-word character, so matching on tokens is matching  *)
(* on characters for every text built from these tokens in which no two    *)
(* word tokens are adjacent.                                               *)
(***************************************************************************)
EXTENDS Integers, Sequences, FiniteSets, Bags, TLC

VARIABLES
    message,        \* parse_user_message: the argument
    parsed,         \* parse_user_message: the value returned (NoResult before the call)
    ppc,            \* "input" before the call of parse_user_message, "returned" after
    request,        \* get_context: request.args
    encodeOutcome,  \* what model.encode does when called for this request
    queryOutcome,   \* what index.query does when called for this request
    response,       \* get_context: the responses sent for the request
    calls,          \* the downstream calls made while handling the request
    escaped,        \* TRUE when an exception left get_context
    spc,            \* "received" while the request waits for get_context, then "done"
    metadataFile,   \* the manifest file: its entries, or Unreadable
    manifest,       \* process.py: all_metadata
    files,          \* the text files under DATA_DIR: path -> text or Absent
    index,          \* the vector index: id -> record
    upsertLog,      \* the index.upsert calls of the current run, in order
    pos,            \* position of the main loop in all_metadata
    run,            \* which run of the job this is (1 or 2)
    jpc,            \* "start", "loop", "done" (the job ran to its end), "exited" (no
                    \* manifest) or "halted" (an exception ended the job)
    firstRun        \* the index and the outcome of run 1, recorded when run 2 starts

parseVars == <<message, parsed, ppc>>
serviceVars == <<request, encodeOutcome, queryOutcome, response, calls, escaped, spc>>
jobVars == <<metadataFile, manifest, files, index, upsertLog, pos, run, jpc, firstRun>>
vars == <<parseVars, serviceVars, jobVars>>

---------------------------------------------------------------------------
(* Bounds of the model *)

\* the longest user_message, in lines
MaxLines == 3
\* the longest reply of the index (TopK in the program)
MaxMatches == 6
\* the longest manifest, in entries
MaxManifest == 2
\* the longest text file, in characters
MaxTextLen == 6

---------------------------------------------------------------------------
(* Text *)

NL == "\n"
SP == " "

WordTokens ==
    {"Workflow", "WORKFLOW", "workflow", "Level", "level", "Topic", "topic",
     "Keywords", "keywords", "Length", "length", "Main", "main", "Text", "text",
     "bespoke", "Differentiated", "differentiated", "other",
     "b1", "B1", "Z9", "z9", "x", "y", "k1", "k2", "200", "soon", "hello", "p", "_"}

DigitTokens == {"200"}

\* str.lower() on one token
LowerTok(t) ==
    CASE t = "Workflow" -> "workflow"
      [] t = "WORKFLOW" -> "workflow"
      [] t = "Level" -> "level"
      [] t = "Topic" -> "topic"
      [] t = "Keywords" -> "keywords"
      [] t = "Length" -> "length"
      [] t = "Main" -> "main"
      [] t = "Text" -> "text"
      [] t = "Differentiated" -> "differentiated"
      [] t = "B1" -> "b1"
      [] t = "Z9" -> "z9"
      [] OTHER -> t

\* str.upper() on one token; only the tokens that occur as values are tabulated
UpperTok(t) ==
    CASE t = "b1" -> "B1"
      [] t = "z9" -> "Z9"
      [] t = "x" -> "X"
      [] t = "y" -> "Y"
      [] t = "p" -> "P"
      [] t = "k1" -> "K1"
      [] t = "k2" -> "K2"
      [] t = "bespoke" -> "BESPOKE"
      [] t = "other" -> "OTHER"
      [] t = "soon" -> "SOON"
      [] t = "hello" -> "HELLO"
      [] t = "differentiated" -> "DIFFERENTIATED"
      [] t = "Differentiated" -> "DIFFERENTIATED"
      [] OTHER -> t

Lower(s) == [i \in 1..Len(s) |-> LowerTok(s[i])]
Upper(s) == [i \in 1..Len(s) |-> UpperTok(s[i])]

\* \s of the pattern, and the characters str.strip() removes
IsSpace(t) == t \in {SP, NL}
\* \w of the pattern
IsWord(t) == t \in WordTokens
\* [\w\s] of the pattern
IsKeyChar(t) == IsWord(t) \/ IsSpace(t)

\* s[a..b-1], Python's s[a:b] on 1-based positions
Slice(s, a, b) == SubSeq(s, a, b - 1)

\* str.strip()
Strip(s) ==
    LET keep == {i \in 1..Len(s) : ~IsSpace(s[i])}
    IN  IF keep = {} THEN <<>>
        ELSE LET lo == CHOOSE i \in keep : \A j \in keep : i <= j
                 hi == CHOOSE i \in keep : \A j \in keep : i >= j
             IN  SubSeq(s, lo, hi)

\* str.replace(" ", "_")
ReplaceSpaces(s) == [i \in 1..Len(s) |-> IF s[i] = SP THEN "_" ELSE s[i]]

\* str.isdigit(): non-empty and every character a digit
IsDigit(s) == Len(s) > 0 /\ \A i \in 1..Len(s) : s[i] \in DigitTokens

\* str.split(sep) for a one-character separator
RECURSIVE SplitOn(_, _)
SplitOn(s, sep) ==
    IF \A i \in 1..Len(s) : s[i] /= sep THEN <<s>>
    ELSE LET k == CHOOSE i \in 1..Len(s) :
                      s[i] = sep /\ \A j \in 1..(i - 1) : s[j] /= sep
         IN  <<Slice(s, 1, k)>> \o SplitOn(SubSeq(s, k + 1, Len(s)), sep)

\* [f(x) for x in seq if x.strip()], with f = strip
RECURSIVE StripNonBlank(_)
StripNonBlank(parts) ==
    IF parts = <<>> THEN <<>>
    ELSE IF Strip(Head(parts)) = <<>> THEN StripNonBlank(Tail(parts))
    ELSE <<Strip(Head(parts))>> \o StripNonBlank(Tail(parts))

---------------------------------------------------------------------------
(* parse_user_message: the pattern ^\s*([\w\s]+):\s*(.*?)\s*$ with         *)
(* re.MULTILINE, matched the way Python's backtracking matcher does.       *)

\* the end of the longest run of white space starting at position s (greedy \s*)
SpaceRunEnd(m, s) ==
    CHOOSE e \in s..(Len(m) + 1) :
        /\ \A i \in s..(e - 1) : IsSpace(m[i])
        /\ (e = Len(m) + 1 \/ ~IsSpace(m[e]))

\* the end of the longest run of [\w\s] starting at position s (greedy [\w\s]+)
KeyRunEnd(m, s) ==
    CHOOSE e \in s..(Len(m) + 1) :
        /\ \A i \in s..(e - 1) : IsKeyChar(m[i])
        /\ (e = Len(m) + 1 \/ ~IsKeyChar(m[e]))

\* ^ under re.MULTILINE: the start of the text or just after a newline
AtLineStart(m, s) == s = 1 \/ m[s - 1] = NL

\* $ under re.MULTILINE: the end of the text or just before a newline
AtLineEnd(m, e) == e = Len(m) + 1 \/ m[e] = NL

\* One attempt of the pattern at position s.  The greedy [\w\s]+ must run up to
\* a colon; the leading \s* gives back one character when the run is all white
\* space.  After the colon the greedy \s* takes all white space, newlines
\* included; the lazy (.*?) then grows, never over a newline, until the rest of
\* its line is white space; the final greedy \s* ends at the last line end it
\* can reach.
MatchAt(m, s) ==
    LET p == SpaceRunEnd(m, s)
        q == KeyRunEnd(m, s)
        ok == AtLineStart(m, s) /\ q > s /\ q <= Len(m) /\ m[q] = ":"
        keyStart == IF q > p THEN p ELSE q - 1
        a == SpaceRunEnd(m, q + 1)
        nl == CHOOSE e \in a..(Len(m) + 1) :
                  AtLineEnd(m, e) /\ \A i \in a..(e - 1) : m[i] /= NL
        v == CHOOSE e \in a..nl :
                  /\ \A i \in e..(nl - 1) : IsSpace(m[i])
                  /\ \A f \in a..(e - 1) : \E i \in f..(nl - 1) : ~IsSpace(m[i])
        w == SpaceRunEnd(m, v)
        end == CHOOSE e \in v..w :
                  AtLineEnd(m, e) /\ \A f \in (e + 1)..w : ~AtLineEnd(m, f)
    IN  IF ok
        THEN [ok |-> TRUE, key |-> Slice(m, keyStart, q), value |-> Slice(m, a, v),
              end |-> end]
        ELSE [ok |-> FALSE, key |-> <<>>, value |-> <<>>, end |-> s]

\* pattern.findall(message): the (key, value) groups of the non-overlapping
\* matches, scanning from left to right
RECURSIVE FindAllFrom(_, _)
FindAllFrom(m, s) ==
    IF s > Len(m) THEN <<>>
    ELSE LET r == MatchAt(m, s)
         IN  IF r.ok
             THEN <<[key |-> r.key, value |-> r.value]>>
                      \o FindAllFrom(m, IF r.end > s THEN r.end ELSE s + 1)
             ELSE FindAllFrom(m, s + 1)

FindAll(m) == FindAllFrom(m, 1)

\* "main text:", the literal searched for in message.lower()
MainTextLabel == <<"main", SP, "text", ":">>

\* message.lower().find("main text:"): the first position of the label, 0 for -1
FindMainText(m) ==
    LET low == Lower(m)
        hits == {i \in 1..(Len(m) - 3) : SubSeq(low, i, i + 3) = MainTextLabel}
    IN  IF hits = {} THEN 0 ELSE CHOOSE i \in hits : \A j \in hits : i <= j

\* None, and the empty string: parse_user_message stores no empty string in a
\* field and tests its fields for truth, so the two are one value here
None == <<>>

\* the value of a function that returned None
NoResult == <<>>
\* the value of a function that returned the dict p
Some(p) == <<p>>

\* params as initialised at lines 40-47
EmptyParams ==
    [workflow |-> None, cefr_level |-> None, topic |-> None, keywords |-> <<>>,
     length |-> None, main_text |-> None]

Workflows == {<<"bespoke">>, <<"differentiated">>}
Levels == {<<"A1">>, <<"A2">>, <<"B1">>, <<"B2">>, <<"C1">>}

\* lines 53-56: main_text, everything after the label, stripped
MainTextOf(m) ==
    LET at == FindMainText(m)
    IN  IF at = 0 THEN None ELSE Strip(SubSeq(m, at + Len(MainTextLabel), Len(m)))

\* line 58: the matches that stay when the label was found
DropMainText(ms) == SelectSeq(ms, LAMBDA r : Strip(Lower(r.key)) /= <<"main", SP, "text">>)

\* lines 50-58: the matches the loop of line 61 goes through
ScanMatches(m) ==
    IF FindMainText(m) /= 0 THEN DropMainText(FindAll(m)) ELSE FindAll(m)

\* lines 62-74: one turn of the loop
ApplyMatch(params, r) ==
    LET key_lower == ReplaceSpaces(Strip(Lower(r.key)))
        value == Strip(r.value)
    IN  IF key_lower = <<"workflow">> /\ Lower(value) \in Workflows
            THEN [params EXCEPT !.workflow = Lower(value)]
        ELSE IF key_lower = <<"level">> /\ Upper(value) \in Levels
            THEN [params EXCEPT !.cefr_level = Upper(value)]
        ELSE IF key_lower = <<"topic">> /\ value /= <<>>
            THEN [params EXCEPT !.topic = value]
        ELSE IF key_lower = <<"keywords">> /\ value /= <<>>
            THEN [params EXCEPT !.keywords = StripNonBlank(SplitOn(value, ","))]
        ELSE IF key_lower = <<"length">> /\ IsDigit(value)
            THEN [params EXCEPT !.length = value]
        ELSE params

\* lines 61-74: the loop over the matches
RECURSIVE ApplyMatches(_, _)
ApplyMatches(params, ms) ==
    IF ms = <<>> THEN params
    ELSE ApplyMatches(ApplyMatch(params, Head(ms)), Tail(ms))

\* lines 40-74: params when the loop has ended
Scanned(m) ==
    ApplyMatches([EmptyParams EXCEPT !.main_text = MainTextOf(m)], ScanMatches(m))

\* a plausible slip: the topic is not tested
MissingWorkflowOrLevel(params) ==
    params.workflow = None \/ params.cefr_level = None

\* line 77: the test of the required fields
MissingRequired(params) ==
    params.workflow = None \/ params.cefr_level = None \/ params.topic = None

\* parse_user_message(message)
parse_user_message(m) ==
    LET params == Scanned(m)
    IN  IF MissingRequired(params) THEN NoResult ELSE Some(params)

---------------------------------------------------------------------------
(* The messages the model handles: up to MaxLines lines joined by "\n",     *)
(* each drawn from LineChoices.                                             *)

LineChoices ==
    { <<"Workflow", ":", SP, "bespoke">>,
      <<"WORKFLOW", ":", SP, "Differentiated">>,
      <<"Workflow", ":", SP, "other">>,
      <<"Level", ":", SP, "b1">>,
      <<"Level", ":", SP, "Z9">>,
      <<"Topic", ":", SP, "x">>,
      <<SP, "Topic", SP, ":", "y", SP>>,
      <<"Topic", ":", SP>>,
      <<"Keywords", ":", SP, "k1", ",", SP, "k2", ",">>,
      <<"Length", ":", SP, "200">>,
      <<"Length", ":", SP, "soon">>,
      <<"Main", SP, "Text", ":", SP, "p">>,
      <<"hello">>,
      <<>> }

RECURSIVE JoinLines(_)
JoinLines(ls) ==
    IF ls = <<>> THEN <<>>
    ELSE IF Len(ls) = 1 THEN ls[1]
    ELSE ls[1] \o <<NL>> \o JoinLines(Tail(ls))

\* the lines of the messages sent to get_context
RequestLineChoices ==
    { <<"WORKFLOW", ":", SP, "Differentiated">>,
      <<"Level", ":", SP, "Z9">>,
      <<"Topic", ":", SP, "x">>,
      <<"Topic", ":", SP>>,
      <<"Keywords", ":", SP, "k1", ",", SP, "k2", ",">>,
      <<"Main", SP, "Text", ":", SP, "p">>,
      <<"hello">> }

LinesOf(choices, n) == UNION {[1..k -> choices] : k \in 0..n}
LineSeqs(n) == LinesOf(LineChoices, n)

\* a message starts with nothing or with a workflow and a level line
Headers == {<<>>, << <<"Workflow", ":", SP, "bespoke">>, <<"Level", ":", SP, "b1">> >>}

Messages == {JoinLines(h \o ls) : h \in Headers, ls \in LineSeqs(MaxLines)}

RequestMessages ==
    {JoinLines(h \o ls) : h \in Headers, ls \in LinesOf(RequestLineChoices, MaxLines)}

---------------------------------------------------------------------------
(* States of the parts a specification leaves alone *)

ParseIdle == message = <<>> /\ parsed = NoResult /\ ppc = "idle"

ServiceIdle ==
    /\ request = [user_message |-> <<>>, args |-> <<>>]
    /\ encodeOutcome = [called |-> FALSE, raised |-> FALSE, matches |-> <<>>]
    /\ queryOutcome = [called |-> FALSE, raised |-> FALSE, matches |-> <<>>]
    /\ response = <<>>
    /\ calls = <<>>
    /\ escaped = FALSE
    /\ spc = "idle"

JobIdle ==
    /\ metadataFile = [readable |-> FALSE, entries |-> <<>>]
    /\ manifest = <<>>
    /\ files = <<>>
    /\ index = EmptyBag
    /\ upsertLog = <<>>
    /\ pos = 0
    /\ run = 0
    /\ jpc = "idle"
    /\ firstRun = [index |-> EmptyBag, completed |-> FALSE]

---------------------------------------------------------------------------
(* parse_user_message as a function of its argument *)

InitParse ==
    /\ message \in Messages
    /\ parsed = NoResult
    /\ ppc = "input"
    /\ ServiceIdle
    /\ JobIdle

ParseUserMessage ==
    /\ ppc = "input"
    /\ parsed' = parse_user_message(message)
    /\ ppc' = "returned"
    /\ UNCHANGED <<message, serviceVars, jobVars>>

NextParse == ParseUserMessage

SpecParse == InitParse /\ [][NextParse]_vars

---------------------------------------------------------------------------
(* get_context *)

\* top_k of the index query
TopK == 20
\* the number of filenames at which the walk over the matches stops
MaxUnique == 5

\* match.metadata.get('filename') of a match without that field, and the empty
\* filename: line 140 tests the value for truth, so the two are one value here
NoFilename == ""

Match(f) == [hasMetadata |-> TRUE, filename |-> f]
\* a match whose metadata is None
BareMatch == [hasMetadata |-> FALSE, filename |-> NoFilename]

NotCalled == [called |-> FALSE, raised |-> FALSE, matches |-> <<>>]
Returned(ms) == [called |-> TRUE, raised |-> FALSE, matches |-> ms]
Raised == [called |-> TRUE, raised |-> TRUE, matches |-> <<>>]

EncodeErrorText == "encode failed"
QueryErrorText == "query failed"
MetadataErrorText == "'NoneType' object has no attribute 'get'"

Response(code, body) == [code |-> code, body |-> body]
ErrorBody(text) == [status |-> "error", message |-> text]
SuccessBody(names) == [status |-> "success", filenames |-> names]

\* what the body of the try block does: it returns a response or raises
Return(resp, cs, enc, qry) ==
    [raises |-> FALSE, response |-> resp, text |-> "", calls |-> cs,
     encode |-> enc, query |-> qry]
Raise(text, cs, enc, qry) ==
    [raises |-> TRUE, response |-> Response(0, ErrorBody("")), text |-> text,
     calls |-> cs, encode |-> enc, query |-> qry]

\* a plausible slip: the walk stops one filename late
RECURSIVE WalkMatchesLate(_, _, _)
WalkMatchesLate(ms, unique_filenames, seen_filenames) ==
    IF ms = <<>> THEN [raises |-> FALSE, unique |-> unique_filenames]
    ELSE LET match == Head(ms)
             filename == match.filename
         IN  IF ~match.hasMetadata THEN [raises |-> TRUE, unique |-> unique_filenames]
             ELSE IF filename /= NoFilename /\ filename \notin seen_filenames
             THEN IF Len(unique_filenames) + 1 > MaxUnique
                  THEN [raises |-> FALSE, unique |-> Append(unique_filenames, filename)]
                  ELSE WalkMatchesLate(Tail(ms), Append(unique_filenames, filename),
                                       seen_filenames \cup {filename})
             ELSE WalkMatchesLate(Tail(ms), unique_filenames, seen_filenames)

\* lines 136-144: the walk over query_results.matches
RECURSIVE WalkMatches(_, _, _)
WalkMatches(ms, unique_filenames, seen_filenames) ==
    IF ms = <<>> THEN [raises |-> FALSE, unique |-> unique_filenames]
    ELSE LET match == Head(ms)
             filename == match.filename
         IN  IF ~match.hasMetadata THEN [raises |-> TRUE, unique |-> unique_filenames]
             ELSE IF filename /= NoFilename /\ filename \notin seen_filenames
             THEN IF Len(unique_filenames) + 1 >= MaxUnique
                  THEN [raises |-> FALSE, unique |-> Append(unique_filenames, filename)]
                  ELSE WalkMatches(Tail(ms), Append(unique_filenames, filename),
                                   seen_filenames \cup {filename})
             ELSE WalkMatches(Tail(ms), unique_filenames, seen_filenames)

\* lines 114-119: metadata_filter; the keywords key is set for a non-empty list only
MetadataFilter(params) ==
    [cefr_level |-> params.cefr_level, topic |-> params.topic,
     keywords |-> params.keywords]

EncodeCall(params) == [fn |-> "model.encode", text |-> params.topic]
QueryCall(params) ==
    [fn |-> "index.query", top_k |-> TopK, filter |-> MetadataFilter(params)]

\* the discrete query parameters of the request, none given
NoArgs == [workflow |-> None, cefr_level |-> None, topic |-> None]

\* a plausible slip: a request with discrete parameters passes the test
NoMessageNoArgs(req) == req.user_message = None /\ req.args = NoArgs

\* lines 92-93: not user_message
NoUserMessage(req) == req.user_message = None

\* lines 92-151: the try block, with result the value parse_user_message
\* returns at line 99, enc what model.encode does when called (TRUE: it
\* returns) and qry what index.query does when called
TryBlock(req, result, enc, qry) ==
    IF NoUserMessage(req)
    THEN Return(Response(400, ErrorBody("Missing 'user_message' parameter.")),
                <<>>, NotCalled, NotCalled)
    ELSE IF result = NoResult
    THEN Return(Response(400, ErrorBody(
                    "Could not parse required parameters from user_message.")),
                <<>>, NotCalled, NotCalled)
    ELSE IF ~enc
    THEN Raise(EncodeErrorText, <<EncodeCall(result[1])>>, Raised, NotCalled)
    ELSE IF qry.raised
    THEN Raise(QueryErrorText, <<EncodeCall(result[1]), QueryCall(result[1])>>,
               Returned(<<>>), Raised)
    ELSE IF WalkMatches(qry.matches, <<>>, {}).raises
    THEN Raise(MetadataErrorText, <<EncodeCall(result[1]), QueryCall(result[1])>>,
               Returned(<<>>), qry)
    ELSE Return(Response(200, SuccessBody(WalkMatches(qry.matches, <<>>, {}).unique)),
                <<EncodeCall(result[1]), QueryCall(result[1])>>, Returned(<<>>), qry)

\* an exception that nothing caught
Escapes(text) == [responses |-> <<>>, escaped |-> TRUE]

\* lines 153-157: the except clause
ExceptClause(text) ==
    [responses |-> <<Response(500, ErrorBody(text))>>, escaped |-> FALSE]

\* the requests the model handles: a user_message or none, with or without the
\* discrete query parameters
DiscreteArgs ==
    {NoArgs,
     [workflow |-> <<"bespoke">>, cefr_level |-> <<"B1">>, topic |-> <<"x">>],
     [workflow |-> <<"other">>, cefr_level |-> <<"B1">>, topic |-> <<"x">>]}

\* every message without discrete parameters, and every choice of discrete
\* parameters without a message, with a message that parses and with one that
\* does not
Requests ==
    {[user_message |-> m, args |-> NoArgs] : m \in RequestMessages}
    \cup {[user_message |-> m, args |-> a] :
            m \in {None,
                   JoinLines(<< <<"WORKFLOW", ":", SP, "Differentiated">>,
                                <<"Level", ":", SP, "b1">>, <<"Topic", ":", SP, "x">> >>),
                   JoinLines(<< <<"Level", ":", SP, "Z9">> >>)},
            a \in DiscreteArgs}

\* get_context handling the request, with the downstream outcomes drawn from
\* encs and qrys
get_context(encs, qrys) ==
    /\ spc = "received"
    /\ spc' = "done"
    /\ \E result \in {IF request.user_message = None THEN NoResult
                      ELSE parse_user_message(request.user_message)} :
       \E enc \in encs, qry \in qrys :
       \E t \in {TryBlock(request, result, enc, qry)} :
       \E out \in {IF t.raises THEN ExceptClause(t.text)
                   ELSE [responses |-> <<t.response>>, escaped |-> FALSE]} :
         /\ response' = out.responses
         /\ escaped' = out.escaped
         /\ calls' = t.calls
         /\ encodeOutcome' = t.encode
         /\ queryOutcome' = t.query
    /\ UNCHANGED <<request, parseVars, jobVars>>

\* the names of the files the index holds records of
Filenames == {"a", "b", "c", "d", "e", "f"}

\* what index.query can do in the service specification
FewQueryOutcomes ==
    {Raised, Returned(<<>>), Returned(<<Match("a"), Match("a"), Match("b")>>),
     Returned(<<Match("a"), BareMatch>>)}

\* replies of at most n matches with filenames drawn from names
Replies(names, n) == UNION {[1..k -> {Match(f) : f \in names}] : k \in 0..n}

\* what index.query can do in the ranking specification: any reply of at most
\* MaxMatches matches with a filename each, and the short replies in which a
\* match can lack its filename
RankedQueryOutcomes ==
    {Returned(ms) : ms \in Replies(Filenames, MaxMatches)
                           \cup Replies({"a", "b", NoFilename}, 3)}

InitService ==
    /\ request \in Requests
    /\ encodeOutcome = NotCalled
    /\ queryOutcome = NotCalled
    /\ response = <<>>
    /\ calls = <<>>
    /\ escaped = FALSE
    /\ spc = "received"
    /\ ParseIdle
    /\ JobIdle

GetContext == get_context(BOOLEAN, FewQueryOutcomes)

NextService == GetContext

Spec == InitService /\ [][NextService]_vars

\* requests whose user_message parses, with and without keywords
RankedRequests ==
    {[user_message |-> JoinLines(h \o ls), args |-> NoArgs] :
        h \in Headers \ {<<>>},
        ls \in { << <<"Topic", ":", SP, "x">> >>,
                 << <<"Topic", ":", SP, "x">>,
                    <<"Keywords", ":", SP, "k1", ",", SP, "k2", ",">> >> }}

InitRanked ==
    /\ request \in RankedRequests
    /\ encodeOutcome = NotCalled
    /\ queryOutcome = NotCalled
    /\ response = <<>>
    /\ calls = <<>>
    /\ escaped = FALSE
    /\ spc = "received"
    /\ ParseIdle
    /\ JobIdle

GetContextRanked == get_context({TRUE}, RankedQueryOutcomes)

NextRanked == GetContextRanked

SpecRanked == InitRanked /\ [][NextRanked]_vars

---------------------------------------------------------------------------
(* process.py: the ingestion job.  A path is the sequence of its segments,  *)
(* a text the sequence of its characters.                                   *)

DATA_DIR == "C:\\PINECONE"

\* os.path.join(DATA_DIR, filename), for a relative filename
JoinPath(dir, filename) == <<dir>> \o filename
\* os.path.basename(filepath)
Basename(filepath) == filepath[Len(filepath)]

\* a file that does not exist
Absent == <<"<absent>">>
\* a manifest file that is missing or is not JSON, and one that holds entries
Unreadable == [readable |-> FALSE, entries |-> <<>>]
Readable(entries) == [readable |-> TRUE, entries |-> entries]

\* model.encode(chunk).tolist(): a function of the chunk
Encode(chunk) == <<"embedding of", chunk>>

\* text.split("\n\n"): the separators are found from left to right
RECURSIVE SplitBlank(_)
SplitBlank(text) ==
    LET seps == {i \in 1..(Len(text) - 1) : text[i] = NL /\ text[i + 1] = NL}
    IN  IF seps = {} THEN <<text>>
        ELSE LET k == CHOOSE i \in seps : \A j \in seps : i <= j
             IN  <<Slice(text, 1, k)>> \o SplitBlank(SubSeq(text, k + 2, Len(text)))

\* lines 41-42: chunks
Chunks(text) == StripNonBlank(SplitBlank(text))

\* a plausible slip: the chunks numbered before the blank ones are dropped
NumberedBeforeDrop(text) ==
    LET raw == SplitBlank(text)
        numbered == [i \in 1..Len(raw) |-> [i |-> i - 1, chunk |-> Strip(raw[i])]]
    IN  SelectSeq(numbered, LAMBDA c : c.chunk /= <<>>)

\* line 45: enumerate(chunks)
Enumerate(text) ==
    [k \in 1..Len(Chunks(text)) |-> [i |-> k - 1, chunk |-> Chunks(text)[k]]]

\* a plausible slip: the chunks numbered on from the records the index holds
ChunkIdFromCount(filepath, i) == <<Basename(filepath), "_", BagCardinality(index) + i>>

\* line 47: chunk_id, f"{basename}_{i}"
ChunkId(filepath, i) == <<Basename(filepath), "_", i>>

\* lines 46-56: the record of one chunk
Record(filepath, metadata_dict, c) ==
    [id |-> ChunkId(filepath, c.i),
     vector |-> Encode(c.chunk),
     metadata |-> [cefr_level |-> metadata_dict.cefr_level,
                   filename |-> Basename(filepath),
                   topic |-> metadata_dict.topic,
                   keywords |-> metadata_dict.keywords,
                   text |-> c.chunk]]

\* a plausible slip: the missing file ends the job
FileNotFoundAborts == [raises |-> TRUE, data |-> <<>>]

\* lines 37-39: except FileNotFoundError
FileNotFound == [raises |-> FALSE, data |-> <<>>]

\* process_file(filepath, metadata_dict, model), reading the file system fs
process_file(fs, filepath, metadata_dict) ==
    IF fs[filepath] = Absent THEN FileNotFound
    ELSE [raises |-> FALSE,
          data |-> [k \in 1..Len(Enumerate(fs[filepath])) |->
                        Record(filepath, metadata_dict, Enumerate(fs[filepath])[k])]]

SeqToSet(sq) == {sq[k] : k \in 1..Len(sq)}

\* index.upsert(vectors=data): the index is the bag of its records, and a record
\* replaces the records of the same id
Upsert(idx, data) ==
    LET ids == {r.id : r \in SeqToSet(data)}
        kept == {r \in DOMAIN idx : r.id \notin ids}
    IN  [r \in kept |-> idx[r]] (+) SetToBag(SeqToSet(data))

\* lines 75-80: load_metadata and the exit when it fails
LoadMetadata ==
    /\ jpc = "start"
    /\ IF ~metadataFile.readable
       THEN jpc' = "exited" /\ UNCHANGED manifest
       ELSE jpc' = "loop" /\ manifest' = metadataFile.entries
    /\ UNCHANGED <<metadataFile, files, index, upsertLog, pos, run, firstRun,
                   parseVars, serviceVars>>

\* lines 86-95: one turn of the main loop; index.upsert returns or raises
ProcessEntry ==
    /\ jpc = "loop"
    /\ pos < Len(manifest)
    /\ \E metadata_item \in {manifest[pos + 1]} :
       \E processed \in {process_file(files, JoinPath(DATA_DIR, metadata_item.filename),
                                      metadata_item)} :
          IF processed.raises
          THEN jpc' = "halted" /\ UNCHANGED <<index, upsertLog, pos>>
          ELSE IF processed.data /= <<>>
          THEN \E upsertReturns \in BOOLEAN :
                  IF upsertReturns
                  THEN /\ index' = Upsert(index, processed.data)
                       /\ upsertLog' = Append(upsertLog, processed.data)
                       /\ pos' = pos + 1
                       /\ UNCHANGED jpc
                  ELSE jpc' = "halted" /\ UNCHANGED <<index, upsertLog, pos>>
          ELSE pos' = pos + 1 /\ UNCHANGED <<index, upsertLog, jpc>>
    /\ UNCHANGED <<metadataFile, manifest, files, run, firstRun, parseVars, serviceVars>>

\* lines 97-99: the loop has ended
Finish ==
    /\ jpc = "loop"
    /\ pos = Len(manifest)
    /\ jpc' = "done"
    /\ UNCHANGED <<metadataFile, manifest, files, index, upsertLog, pos, run, firstRun,
                   parseVars, serviceVars>>

\* the job is started again on the same manifest and files
Rerun ==
    /\ run = 1
    /\ jpc \in {"done", "halted"}
    /\ run' = 2
    /\ firstRun' = [index |-> index, completed |-> jpc = "done"]
    /\ jpc' = "start"
    /\ pos' = 0
    /\ upsertLog' = <<>>
    /\ manifest' = <<>>
    /\ UNCHANGED <<metadataFile, files, index, parseVars, serviceVars>>

NextJob == LoadMetadata \/ ProcessEntry \/ Finish \/ Rerun

\* the text files a manifest can name
Filenames3 == {<<"a.txt">>, <<"d1", "x.txt">>, <<"d2", "x.txt">>}

Metadatas ==
    {[cefr_level |-> "C1", topic |-> "Nature", keywords |-> <<"tree">>],
     [cefr_level |-> "B1", topic |-> "Travel", keywords |-> <<"airport", "hotel">>]}

Entry(f, md) ==
    [filename |-> f, cefr_level |-> md.cefr_level, topic |-> md.topic,
     keywords |-> md.keywords]

Entries(names) == {Entry(f, md) : f \in names, md \in Metadatas}

\* the entries of the job specification: a.txt under either metadata, and two
\* files of one basename
JobEntries ==
    Entries({<<"a.txt">>})
    \cup {Entry(<<"d1", "x.txt">>, [cefr_level |-> "C1", topic |-> "Nature",
                                    keywords |-> <<"tree">>]),
          Entry(<<"d2", "x.txt">>, [cefr_level |-> "B1", topic |-> "Travel",
                                    keywords |-> <<"airport", "hotel">>])}

Manifests(entries, n) == {Readable(es) : es \in UNION {[1..k -> entries] : k \in 0..n}}

\* what a text file can hold in the job specification
FewTexts ==
    {Absent, <<"P", NL, NL, "Q", SP, "Q">>, <<SP, NL, NL, NL, NL, "Q", NL>>,
     <<NL, NL, SP>>}

\* a record left in the index by an earlier version of x.txt
StaleRecord ==
    [id |-> <<"x.txt", "_", 7>>, vector |-> Encode(<<"R">>),
     metadata |-> [cefr_level |-> "C1", filename |-> "x.txt", topic |-> "Nature",
                   keywords |-> <<"tree">>, text |-> <<"R">>]]

JobStart ==
    /\ manifest = <<>>
    /\ upsertLog = <<>>
    /\ pos = 0
    /\ run = 1
    /\ jpc = "start"
    /\ firstRun = [index |-> EmptyBag, completed |-> FALSE]
    /\ ParseIdle
    /\ ServiceIdle

InitJob ==
    /\ metadataFile \in Manifests(JobEntries, MaxManifest) \cup {Unreadable}
    /\ files \in [{JoinPath(DATA_DIR, f) : f \in Filenames3} -> FewTexts]
    /\ index \in {EmptyBag, SetToBag({StaleRecord})}
    /\ JobStart

SpecJob == InitJob /\ [][NextJob]_vars

\* every text of at most n characters
Texts(n) == UNION {[1..k -> {"P", "Q", SP, NL}] : k \in 0..n}

InitChunk ==
    /\ metadataFile \in Manifests(Entries({<<"a.txt">>}), 1) \cup {Unreadable}
    /\ files \in [{JoinPath(DATA_DIR, <<"a.txt">>)} -> Texts(MaxTextLen) \cup {Absent}]
    /\ index = EmptyBag
    /\ JobStart

SpecChunk == InitChunk /\ [][NextJob]_vars

---------------------------------------------------------------------------
(* Properties *)

Min(a, b) == IF a <= b THEN a ELSE b

\* the k-th smallest member of a set of numbers
NthOf(S, k) == CHOOSE i \in S : Cardinality({j \in S : j < i}) = k - 1

NoDuplicates(sq) == \A i, j \in 1..Len(sq) : sq[i] = sq[j] => i = j

\* the positions at which a filename is seen for the first time in a reply
FirstSeen(ms) ==
    {i \in 1..Len(ms) :
        /\ ms[i].filename /= NoFilename
        /\ \A j \in 1..(i - 1) : ms[j].filename /= ms[i].filename}

\* the first n distinct filenames of a reply, in rank order
FirstDistinct(ms, n) ==
    [k \in 1..Min(n, Cardinality(FirstSeen(ms))) |-> ms[NthOf(FirstSeen(ms), k)].filename]

Succeeded == spc = "done" /\ Len(response) = 1 /\ response[1].code = 200

\* C1: the filenames of a success response are the first five distinct
\* filenames of the ranked matches, in first-seen order (all of them when fewer
\* than five are distinct): at most 5 entries and no duplicate.
C1_FirstFiveDistinct ==
    Succeeded =>
        /\ response[1].body.filenames = FirstDistinct(queryOutcome.matches, 5)
        /\ Len(response[1].body.filenames) <= 5
        /\ NoDuplicates(response[1].body.filenames)

\* a reply with a repeated filename that yields five filenames
C1_Witness ==
    /\ Succeeded
    /\ Len(response[1].body.filenames) = 5
    /\ ~NoDuplicates([k \in 1..Len(queryOutcome.matches) |->
                          queryOutcome.matches[k].filename])

\* The reading of a user_message that the specification describes: the text
\* before the Main Text label is cut into lines and the pattern is applied to
\* each line by itself.
BeforeLabel(m) == IF FindMainText(m) = 0 THEN m ELSE Slice(m, 1, FindMainText(m))

RECURSIVE LineMatches(_)
LineMatches(ls) ==
    IF ls = <<>> THEN <<>>
    ELSE (IF MatchAt(Head(ls), 1).ok
          THEN <<[key |-> MatchAt(Head(ls), 1).key, value |-> MatchAt(Head(ls), 1).value]>>
          ELSE <<>>) \o LineMatches(Tail(ls))

LineByLineScan(m) == ApplyMatches(EmptyParams, LineMatches(SplitOn(BeforeLabel(m), NL)))

LineByLine(m) ==
    IF LineByLineScan(m).workflow = None \/ LineByLineScan(m).cefr_level = None
           \/ LineByLineScan(m).topic = None
    THEN NoResult
    ELSE Some([LineByLineScan(m) EXCEPT !.main_text = MainTextOf(m)])

\* C2: a request without a topic, without a workflow of bespoke/differentiated
\* or without a level of A1..C1 (a missing or unparsable user_message included)
\* gets an error response, and model.encode and index.query are not called.
C2_InvalidRequestRejected ==
    (spc = "done"
        /\ (request.user_message = None \/ LineByLine(request.user_message) = NoResult))
    => /\ Len(response) = 1
       /\ response[1].body.status = "error"
       /\ calls = <<>>

ValidArgs(a) ==
    a.workflow \in Workflows /\ a.cefr_level \in Levels /\ a.topic /= None

WalkRaised ==
    /\ queryOutcome.called
    /\ ~queryOutcome.raised
    /\ \E k \in 1..Len(queryOutcome.matches) :
          /\ ~queryOutcome.matches[k].hasMetadata
          /\ Cardinality(FirstSeen(SubSeq(queryOutcome.matches, 1, k - 1))) < 5

\* C4: every request ends in exactly one response, of status code 200, 400 or
\* 500; no exception leaves the handler; an exception of the embedding call, of
\* the index query or of the walk gives 500 with status error and the
\* exception's text; 200 is sent only when both calls returned normally.
C4_ExactlyOneResponse ==
    spc = "done" =>
        /\ ~escaped
        /\ Len(response) = 1
        /\ response[1].code \in {200, 400, 500}
        /\ encodeOutcome.raised =>
               response[1] = Response(500, ErrorBody(EncodeErrorText))
        /\ queryOutcome.raised =>
               response[1] = Response(500, ErrorBody(QueryErrorText))
        /\ WalkRaised => response[1] = Response(500, ErrorBody(MetadataErrorText))
        /\ response[1].code = 500 =>
               encodeOutcome.raised \/ queryOutcome.raised \/ WalkRaised
        /\ response[1].code = 200 =>
               /\ encodeOutcome.called /\ ~encodeOutcome.raised
               /\ queryOutcome.called /\ ~queryOutcome.raised

\* the index query raised and the request was answered 500
C4_Witness ==
    /\ spc = "done"
    /\ queryOutcome.raised
    /\ response = <<Response(500, ErrorBody(QueryErrorText))>>

\* the message up to and with the Main Text label, the text after it removed
UpToLabel(m) == Slice(m, 1, FindMainText(m) + Len(MainTextLabel))

SameFields(r1, r2) ==
    IF r1 = NoResult \/ r2 = NoResult THEN r1 = r2
    ELSE [r1[1] EXCEPT !.main_text = None] = [r2[1] EXCEPT !.main_text = None]

\* the Main Text line was matched as a pair of its own (no line before it took
\* it as its value)
LabelIsAPair(m) ==
    \E r \in SeqToSet(FindAll(m)) : Strip(Lower(r.key)) = <<"main", SP, "text">>

\* C5: the text after the Main Text label never changes the parsed workflow,
\* cefr_level, topic, keywords or length: the message parses as it does with
\* that text removed.
C5_MainTextExcluded ==
    (ppc = "returned" /\ FindMainText(message) /= 0 /\ LabelIsAPair(message))
    => SameFields(parsed, parse_user_message(UpToLabel(message)))

\* C6: the message is scanned line by line: what is read from a line does not
\* depend on the lines before it, so the result is the one of applying the
\* pattern to each line by itself.
C6_LineByLine ==
    (ppc = "returned" /\ FindMainText(message) = 0) => parsed = LineByLine(message)

NormalKey(r) == ReplaceSpaces(Strip(Lower(r.key)))

\* the scan ms accepted a workflow, a level, a topic
AcceptsWorkflow(ms) ==
    \E k \in 1..Len(ms) :
        NormalKey(ms[k]) = <<"workflow">> /\ Lower(Strip(ms[k].value)) \in Workflows

AcceptsLevel(ms) ==
    \E k \in 1..Len(ms) :
        NormalKey(ms[k]) = <<"level">> /\ Upper(Strip(ms[k].value)) \in Levels

AcceptsTopic(ms) ==
    \E k \in 1..Len(ms) :
        NormalKey(ms[k]) = <<"topic">> /\ Strip(ms[k].value) /= <<>>

\* C7: parse_user_message returns a parameter set exactly when the scan
\* accepted a workflow, a level and a topic; in a returned set the workflow is
\* bespoke or differentiated, the level one of A1..C1, the topic non-empty, the
\* keywords non-empty trimmed strings and the length absent or all digits.
C7_ReturnedSetValid ==
    ppc = "returned" =>
        /\ \A ms \in {ScanMatches(message)} :
              parsed /= NoResult <=>
                  (AcceptsWorkflow(ms) /\ AcceptsLevel(ms) /\ AcceptsTopic(ms))
        /\ parsed /= NoResult =>
              /\ parsed[1].workflow \in Workflows
              /\ parsed[1].cefr_level \in Levels
              /\ parsed[1].topic /= <<>>
              /\ \A k \in 1..Len(parsed[1].keywords) :
                     /\ parsed[1].keywords[k] /= <<>>
                     /\ Strip(parsed[1].keywords[k]) = parsed[1].keywords[k]
              /\ parsed[1].length = None \/ IsDigit(parsed[1].length)

\* a returned set with keywords and a length
C7_Witness ==
    /\ ppc = "returned"
    /\ parsed /= NoResult
    /\ Len(parsed[1].keywords) = 2
    /\ parsed[1].length /= None

FilePath(i) == JoinPath(DATA_DIR, manifest[i].filename)
Present(i) == files[FilePath(i)] /= Absent
NonBlankParts(text) ==
    {k \in 1..Len(SplitBlank(text)) : Strip(SplitBlank(text)[k]) /= <<>>}
\* the entries whose file is there and has a non-blank chunk
Uploadable(n) == {i \in 1..n : Present(i) /\ NonBlankParts(files[FilePath(i)]) /= {}}

BatchHoldsFile(batch, i) ==
    \A parts \in {SplitBlank(files[FilePath(i)])} :
    \A nonBlank \in {{k \in 1..Len(parts) : Strip(parts[k]) /= <<>>}} :
        /\ Len(batch) = Cardinality(nonBlank)
        /\ \A k \in 1..Len(batch) :
              /\ batch[k].metadata.filename = Basename(manifest[i].filename)
              /\ batch[k].metadata.text = Strip(parts[NthOf(nonBlank, k)])

\* C8: the entries are handled in order; an entry whose file is absent causes
\* no upsert and does not end the job; every entry whose file is there with a
\* non-blank chunk is upserted in one batch call with all its chunks, however
\* many entries before it were skipped.
C8_MissingFileSkipped ==
    /\ jpc \in {"loop", "done", "halted"} =>
          \A handled \in {Uploadable(pos)} :
              /\ Len(upsertLog) = Cardinality(handled)
              /\ \A k \in 1..Len(upsertLog) :
                     BatchHoldsFile(upsertLog[k], NthOf(handled, k))
    /\ jpc = "halted" => (pos < Len(manifest) /\ (pos + 1) \in Uploadable(pos + 1))
    /\ jpc = "done" => pos = Len(manifest)

\* the job ran to its end, skipped an entry and upserted a later one
C8_Witness ==
    /\ jpc = "done"
    /\ \E i, j \in 1..Len(manifest) : i < j /\ ~Present(i) /\ j \in Uploadable(Len(manifest))
    /\ upsertLog /= <<>>

Ids(idx) == {r.id : r \in BagToSet(idx)}

\* C9: a second run on the same manifest and files leaves the index with the
\* ids and the records it had after the first run: an upsert of the second run
\* creates no id, and at its end every record is as it was.
C9_RerunIdempotent ==
    (run = 2 /\ firstRun.completed) =>
        /\ Ids(index) = Ids(firstRun.index)
        /\ BagCardinality(index) = Cardinality(Ids(index))
        /\ jpc = "done" => index = firstRun.index

\* the second run ended after two upserts, two entries sharing their ids
C9_Witness ==
    /\ run = 2
    /\ firstRun.completed
    /\ jpc = "done"
    /\ Len(upsertLog) = 2
    /\ upsertLog[1][1].id = upsertLog[2][1].id
    /\ upsertLog[1][1].metadata.text /= upsertLog[2][1].metadata.text

\* C10: a file of n non-blank chunks gives n records with the ids basename_0 ..
\* basename_(n-1) in chunk order; the records carry the entry's cefr_level,
\* topic and keywords and the basename as filename, and differ in id, text and
\* vector only.
C10_ChunkRecords ==
    (jpc \in {"loop", "done"} /\ pos = 1 /\ Present(1)) =>
        LET text == files[FilePath(1)]
            n == Cardinality(NonBlankParts(text))
        IN  /\ n = 0 => upsertLog = <<>>
            /\ n > 0 =>
                 /\ Len(upsertLog) = 1
                 /\ Len(upsertLog[1]) = n
                 /\ \A k \in 1..n :
                      LET r == upsertLog[1][k]
                          chunk == Strip(SplitBlank(text)[NthOf(NonBlankParts(text), k)])
                      IN  /\ r.id = <<Basename(manifest[1].filename), "_", k - 1>>
                          /\ r.vector = Encode(chunk)
                          /\ r.metadata =
                                [cefr_level |-> manifest[1].cefr_level,
                                 filename |-> Basename(manifest[1].filename),
                                 topic |-> manifest[1].topic,
                                 keywords |-> manifest[1].keywords,
                                 text |-> chunk]

\* two records from a text with a blank chunk between two others
C10_Witness ==
    /\ jpc = "done"
    /\ Len(upsertLog) = 1
    /\ Len(upsertLog[1]) = 2
    /\ Len(SplitBlank(files[FilePath(1)])) = 3
    /\ 2 \notin NonBlankParts(files[FilePath(1)])

====
